---- MODULE Spec2Model ----
(***************************************************************************)
(* Model of robot.libdocpkg's two spec-file builders:                      *)
(*   JsonDocBuilder (jsonbuilder.py) and XmlDocBuilder (xmlbuilder.py).    *)
(*                                                                         *)
(* Python values are written as strings: None is "None", True is "True",   *)
(* False is "False"; a key, attribute or child element the document does   *)
(* not carry is Absent.  A Python dict is a TLA+ function.                 *)
(***************************************************************************)
EXTENDS Integers, Sequences, FiniteSets, TLC

VARIABLES builder, pc, handle, error, reads, document, libdoc, result, input, spec,
          jsonOut, xmlOut

vars == <<builder, pc, handle, error, reads, document, libdoc, result, input, spec,
          jsonOut, xmlOut>>

(***************************** values **************************************)
Absent == "<absent>"
None == "None"
NoError == "<no error>"
Builders == {"json", "xml"}

\* Bounds of the model.
MaxArgs == 2

\* The seven kinds the setters tables name, and the two among them that are markers.
POSITIONAL_ONLY == "POSITIONAL_ONLY"
POSITIONAL_ONLY_MARKER == "POSITIONAL_ONLY_MARKER"
POSITIONAL_OR_NAMED == "POSITIONAL_OR_NAMED"
VAR_POSITIONAL == "VAR_POSITIONAL"
NAMED_ONLY_MARKER == "NAMED_ONLY_MARKER"
NAMED_ONLY == "NAMED_ONLY"
VAR_NAMED == "VAR_NAMED"
SetterKinds == {POSITIONAL_ONLY, POSITIONAL_ONLY_MARKER, POSITIONAL_OR_NAMED,
                VAR_POSITIONAL, NAMED_ONLY_MARKER, NAMED_ONLY, VAR_NAMED}
MarkerKinds == {POSITIONAL_ONLY_MARKER, NAMED_ONLY_MARKER}
\* A kind value that is no key of the setters table.
BogusKind == "BOGUS"

(************************* ArgumentSpec ************************************)
EmptyDict == <<>>

\* d[k] = v of a Python dict.
DictSet(d, k, v) == (k :> v) @@ d

\* ArgumentSpec(): empty groups, no variadic names, no defaults, no types.
ArgumentSpec ==
  [positional_only |-> <<>>, positional_or_named |-> <<>>, var_positional |-> None,
   named_only |-> <<>>, var_named |-> None, defaults |-> EmptyDict, types |-> EmptyDict]

\* setters[kind](name), for a kind that is a key of the table.
MutantSetterPrepends(s, kind, name) ==
  CASE kind = POSITIONAL_ONLY -> [s EXCEPT !.positional_only = <<name>> \o @]
    [] kind = POSITIONAL_ONLY_MARKER -> s
    [] kind = POSITIONAL_OR_NAMED -> [s EXCEPT !.positional_or_named = <<name>> \o @]
    [] kind = VAR_POSITIONAL -> [s EXCEPT !.var_positional = name]
    [] kind = NAMED_ONLY_MARKER -> s
    [] kind = NAMED_ONLY -> [s EXCEPT !.named_only = <<name>> \o @]
    [] kind = VAR_NAMED -> [s EXCEPT !.var_named = name]

MutantSetterFirstVariadicWins(s, kind, name) ==
  CASE kind = POSITIONAL_ONLY -> [s EXCEPT !.positional_only = Append(@, name)]
    [] kind = POSITIONAL_ONLY_MARKER -> s
    [] kind = POSITIONAL_OR_NAMED -> [s EXCEPT !.positional_or_named = Append(@, name)]
    [] kind = VAR_POSITIONAL ->
         IF s.var_positional = None THEN [s EXCEPT !.var_positional = name] ELSE s
    [] kind = NAMED_ONLY_MARKER -> s
    [] kind = NAMED_ONLY -> [s EXCEPT !.named_only = Append(@, name)]
    [] kind = VAR_NAMED ->
         IF s.var_named = None THEN [s EXCEPT !.var_named = name] ELSE s

ApplySetter(s, kind, name) ==
  CASE kind = POSITIONAL_ONLY -> [s EXCEPT !.positional_only = Append(@, name)]
    [] kind = POSITIONAL_ONLY_MARKER -> s
    [] kind = POSITIONAL_OR_NAMED -> [s EXCEPT !.positional_or_named = Append(@, name)]
    [] kind = VAR_POSITIONAL -> [s EXCEPT !.var_positional = name]
    [] kind = NAMED_ONLY_MARKER -> s
    [] kind = NAMED_ONLY -> [s EXCEPT !.named_only = Append(@, name)]
    [] kind = VAR_NAMED -> [s EXCEPT !.var_named = name]

(************************ parameter records ********************************)
\* One parameter record of a document.  name: Absent when the record carries no
\* name (no 'name' key, no <name> child).  default: Absent when it carries none;
\* None is JSON's null; "" is an empty default (XML: a <default/> without text).
\* types: the declared type names; hasTypes is FALSE when a JSON record has no
\* 'types' key (an XML record without <type> children has types = <<>>).
ArgNames == {"a", "b"}
JsonPayloads ==
  {[default |-> d, hasTypes |-> TRUE, types |-> <<"int">>] : d \in {Absent, None, "", "5"}}
  \cup {[default |-> d, hasTypes |-> TRUE, types |-> <<>>] : d \in {Absent, "5"}}
  \cup {[default |-> "5", hasTypes |-> FALSE, types |-> <<>>]}
XmlPayloads ==
  {[default |-> d, hasTypes |-> TRUE, types |-> t] :
      d \in {Absent, "", "5"}, t \in {<<>>, <<"int">>}}

FullPayload == [default |-> "5", hasTypes |-> TRUE, types |-> <<>>]

Arg(kind, name, p) ==
  [kind |-> kind, name |-> name, default |-> p.default,
   hasTypes |-> p.hasTypes, types |-> p.types]

\* The records a document of each format is drawn from: every kind of the table with
\* every name and payload, a kind outside the table with every name, and records of
\* every kind that carry no name.
ArgsOf(payloads) ==
  {Arg(k, n, p) : k \in SetterKinds, n \in ArgNames, p \in payloads}
  \cup {Arg(BogusKind, n, FullPayload) : n \in ArgNames}
  \cup {Arg(k, Absent, FullPayload) : k \in SetterKinds \cup {BogusKind}}
JsonArgs == ArgsOf(JsonPayloads)
XmlArgs == ArgsOf(XmlPayloads)
ArgsFor(b) == IF b = "json" THEN JsonArgs ELSE XmlArgs

(********************** _create_arguments **********************************)
\* What one statement sequence leaves: the ArgumentSpec as mutated so far and the
\* exception raised (NoError when none).
Outcome(s, e) == [spec |-> s, raised |-> e]

\* setters[kind](name): a KeyError when kind is no key of the table.
MutantDispatchIgnoresUnknown(s, kind, name) ==
  IF kind \in SetterKinds THEN Outcome(ApplySetter(s, kind, name), NoError)
  ELSE Outcome(s, NoError)

Dispatch(s, kind, name) ==
  IF kind \in SetterKinds THEN Outcome(ApplySetter(s, kind, name), NoError)
  ELSE Outcome(s, "KeyError")

\* default = arg.get('defaultValue'); if default is not None: spec.defaults[name] = default
JsonRecordDefault(s, arg) ==
  LET default == IF arg.default = Absent THEN None ELSE arg.default
  IN IF default # None THEN [s EXCEPT !.defaults = DictSet(@, arg.name, default)] ELSE s

\* The body of JsonDocBuilder._create_arguments' loop, for one record.
JsonArgStep(s, arg) ==
  IF arg.name = Absent THEN Outcome(s, "KeyError")
  ELSE LET d == Dispatch(s, arg.kind, arg.name)
       IN IF d.raised # NoError THEN d
          ELSE LET s2 == JsonRecordDefault(d.spec, arg)
               IN IF ~arg.hasTypes THEN Outcome(s2, "KeyError")
                  ELSE Outcome([s2 EXCEPT !.types = DictSet(@, arg.name, arg.types)], NoError)

\* The text of an element: None when the element is empty.
ElemText(v) == IF v = "" THEN None ELSE v

\* Python's `x or ''` on a string or None.
OrEmpty(x) == IF x \in {None, ""} THEN "" ELSE x

\* if default_elem is not None: spec.defaults[name] = default_elem.text or ''
MutantXmlRecordDefaultKeepsNone(s, arg) ==
  IF arg.default # Absent
  THEN [s EXCEPT !.defaults = DictSet(@, arg.name, ElemText(arg.default))]
  ELSE s

XmlRecordDefault(s, arg) ==
  IF arg.default # Absent
  THEN [s EXCEPT !.defaults = DictSet(@, arg.name, OrEmpty(ElemText(arg.default)))]
  ELSE s

\* The body of XmlDocBuilder._create_arguments' loop, for one <arg> element.
XmlArgStep(s, arg) ==
  IF arg.name = Absent THEN Outcome(s, NoError)
  ELSE LET d == Dispatch(s, arg.kind, arg.name)
       IN IF d.raised # NoError THEN d
          ELSE LET s2 == XmlRecordDefault(d.spec, arg)
               IN Outcome([s2 EXCEPT !.types = DictSet(@, arg.name, arg.types)], NoError)

ArgStep(b, s, arg) == IF b = "json" THEN JsonArgStep(s, arg) ELSE XmlArgStep(s, arg)

\* _create_arguments as a whole: the loop over the records, stopped by the first
\* exception.
RECURSIVE CreateArgumentsFrom(_, _, _)
CreateArgumentsFrom(b, s, args) ==
  IF args = <<>> THEN Outcome(s, NoError)
  ELSE LET r == ArgStep(b, s, Head(args))
       IN IF r.raised # NoError THEN r ELSE CreateArgumentsFrom(b, r.spec, Tail(args))

CreateArguments(b, args) == CreateArgumentsFrom(b, ArgumentSpec, args)

(**************************** results **************************************)
\* What a call leaves: the value it returned (val = <<v>>), or the exception it
\* raised (val = <<>>).
Ok(v) == [raised |-> NoError, val |-> <<v>>]
Raise(e) == [raised |-> e, val |-> <<>>]

\* int(x) of a numeral; a string that is no numeral raises ValueError.
Numerals == {"-1", "0", "3", "7"}
IntOf(x) == CASE x = "-1" -> -1 [] x = "0" -> 0 [] x = "3" -> 3 [] x = "7" -> 7

\* str.upper() on the type names of the model.
Upper(x) ==
  CASE x = "library" -> "LIBRARY" [] x = "resource" -> "RESOURCE" [] OTHER -> x

\* Element.get(key): None when the attribute is absent.
Get(v) == IF v = Absent THEN None ELSE v

(************************** LibraryDoc *************************************)
\* LibraryDoc(...) as build fills it: inits, keywords and data types come later.
LibraryDoc(name, doc, version, type, scope, doc_format, source, lineno) ==
  [name |-> name, doc |-> doc, version |-> version, type |-> type, scope |-> scope,
   doc_format |-> doc_format, source |-> source, lineno |-> lineno,
   inits |-> <<>>, keywords |-> <<>>, data_types |-> {}]

\* JsonDocBuilder.build_from_dict, the LibraryDoc(...) call: every key but lineno is
\* required, and lineno falls back to -1.
JsonLibraryDoc(t) ==
  IF Absent \in {t.name, t.doc, t.version, t.type, t.scope, t.format, t.source}
  THEN Raise("KeyError")
  ELSE IF t.lineno # Absent /\ t.lineno \notin Numerals THEN Raise("ValueError")
  ELSE Ok(LibraryDoc(t.name, t.doc, t.version, t.type, t.scope, t.format, t.source,
                     IF t.lineno = Absent THEN -1 ELSE IntOf(t.lineno)))

\* lineno=int(spec.get('lineno')) or -1
XmlLineno(v) ==
  IF v = Absent THEN Raise("TypeError")
  ELSE IF v \notin Numerals THEN Raise("ValueError")
  ELSE Ok(IF IntOf(v) = 0 THEN -1 ELSE IntOf(v))

\* XmlDocBuilder.build, the LibraryDoc(...) call, its arguments evaluated in order.
XmlLibraryDoc(t) ==
  IF t.type = Absent THEN Raise("AttributeError")
  ELSE IF t.version = Absent \/ t.doc = Absent THEN Raise("AttributeError")
  ELSE IF XmlLineno(t.lineno).raised # NoError THEN Raise(XmlLineno(t.lineno).raised)
  ELSE Ok(LibraryDoc(Get(t.name), OrEmpty(ElemText(t.doc)), OrEmpty(ElemText(t.version)),
                     Upper(t.type), Get(t.scope),
                     IF t.format \in {Absent, ""} THEN "ROBOT" ELSE t.format,
                     Get(t.source), XmlLineno(t.lineno).val[1]))

(************************** KeywordDoc *************************************)
KeywordDoc(name, args, doc, shortdoc, tags, source, lineno) ==
  [name |-> name, args |-> args, doc |-> doc, shortdoc |-> shortdoc, tags |-> tags,
   source |-> source, lineno |-> lineno]

\* int(x.get('lineno', -1))
LinenoOrMinusOne(v) ==
  IF v = Absent THEN Ok(-1)
  ELSE IF v \notin Numerals THEN Raise("ValueError")
  ELSE Ok(IntOf(v))

\* JsonDocBuilder._create_keyword
JsonCreateKeyword(kw) ==
  LET a == CreateArguments("json", kw.args)
  IN IF a.raised # NoError THEN Raise(a.raised)
     ELSE IF Absent \in {kw.doc, kw.shortdoc, kw.source} THEN Raise("KeyError")
     ELSE IF LinenoOrMinusOne(kw.lineno).raised # NoError
          THEN Raise(LinenoOrMinusOne(kw.lineno).raised)
     ELSE Ok(KeywordDoc(Get(kw.name), a.spec, kw.doc, kw.shortdoc, kw.tags, kw.source,
                        LinenoOrMinusOne(kw.lineno).val[1]))

\* XmlDocBuilder._create_keyword
XmlCreateKeyword(elem, lib_source) ==
  LET a == CreateArguments("xml", elem.args)
  IN IF a.raised # NoError THEN Raise(a.raised)
     ELSE IF Absent \in {elem.doc, elem.shortdoc} THEN Raise("AttributeError")
     ELSE IF LinenoOrMinusOne(elem.lineno).raised # NoError
          THEN Raise(LinenoOrMinusOne(elem.lineno).raised)
     ELSE Ok(KeywordDoc(IF elem.name = Absent THEN "" ELSE elem.name, a.spec,
                        OrEmpty(ElemText(elem.doc)), OrEmpty(ElemText(elem.shortdoc)),
                        elem.tags,
                        IF elem.source \in {Absent, ""} THEN lib_source ELSE elem.source,
                        LinenoOrMinusOne(elem.lineno).val[1]))

CreateKeyword(b, kw, lib_source) ==
  IF b = "json" THEN JsonCreateKeyword(kw) ELSE XmlCreateKeyword(kw, lib_source)

\* [self._create_keyword(kw) for kw in ...]: the list, or the first exception.
RECURSIVE CreateKeywordsFrom(_, _, _, _)
CreateKeywordsFrom(b, kws, lib_source, done) ==
  IF kws = <<>> THEN Ok(done)
  ELSE LET k == CreateKeyword(b, Head(kws), lib_source)
       IN IF k.raised # NoError THEN Raise(k.raised)
          ELSE CreateKeywordsFrom(b, Tail(kws), lib_source, Append(done, k.val[1]))

CreateKeywords(b, kws, lib_source) == CreateKeywordsFrom(b, kws, lib_source, <<>>)

(************************** data types *************************************)
\* item.get('required'): the value as it is, None when the key is absent.
JsonRequired(v) == Get(v)

\* required = item.get('required', None); if required is not None: required = required == 'true'
MutantXmlRequiredKeepsString(v) ==
  IF v = Absent THEN None ELSE v

XmlRequired(v) ==
  IF v = Absent THEN None ELSE IF v = "true" THEN "True" ELSE "False"

Required(b, v) == IF b = "json" THEN JsonRequired(v) ELSE XmlRequired(v)

Range(f) == {f[i] : i \in DOMAIN f}

\* A doc text: a required key (JSON), a <doc> child's text or '' (XML).
DocText(b, v) == IF b = "json" THEN v ELSE OrEmpty(ElemText(v))

\* _create_enum_doc, _create_typed_dict_doc, _create_custom_doc
EnumDoc(b, dt) ==
  [kind |-> "Enum", name |-> dt.name, doc |-> DocText(b, dt.doc),
   members |-> [i \in 1..Len(dt.members) |->
                 [name |-> dt.members[i].name, value |-> dt.members[i].value]]]

TypedDictDoc(b, dt) ==
  [kind |-> "TypedDict", name |-> dt.name, doc |-> DocText(b, dt.doc),
   items |-> [i \in 1..Len(dt.items) |->
               [key |-> dt.items[i].key, type |-> dt.items[i].type,
                required |-> Required(b, dt.items[i].required)]]]

CustomDoc(b, dt) ==
  [kind |-> "Custom", name |-> dt.name, doc |-> DocText(b, dt.doc)]

\* _create_data_types and the set(...) build makes of it.  A data type without a doc
\* raises: KeyError from data['doc'], AttributeError from elem.find('doc').text.
CreateDataTypes(b, dts) ==
  IF \/ (\E i \in 1..Len(dts.enums) : dts.enums[i].doc = Absent)
     \/ (\E i \in 1..Len(dts.typeddicts) : dts.typeddicts[i].doc = Absent)
     \/ (\E i \in 1..Len(dts.customs) : dts.customs[i].doc = Absent)
  THEN Raise(IF b = "json" THEN "KeyError" ELSE "AttributeError")
  ELSE Ok({EnumDoc(b, dts.enums[i]) : i \in 1..Len(dts.enums)}
          \cup {TypedDictDoc(b, dts.typeddicts[i]) : i \in 1..Len(dts.typeddicts)}
          \cup {CustomDoc(b, dts.customs[i]) : i \in 1..Len(dts.customs)})

(************************** documents **************************************)
MaxKw == 1

\* The top-level fields of a document: a key (JSON), an attribute or child (XML).
BaseTop ==
  [name |-> "Lib", doc |-> "", version |-> "1.0", type |-> "library", scope |-> "GLOBAL",
   format |-> "HTML", source |-> "lib.py", lineno |-> "7"]
TopLevels ==
  {[BaseTop EXCEPT !.type = ty, !.format = f, !.lineno = ln] :
      ty \in {Absent, "library"}, f \in {Absent, "HTML"}, ln \in {Absent, "0", "7", "x"}}

\* Keyword entries.
BaseKw ==
  [name |-> "Run", args |-> <<>>, doc |-> "", shortdoc |-> "", tags |-> <<"t">>,
   source |-> "kw.py", lineno |-> "3"]
KwArgLists ==
  {<<>>,
   <<Arg(POSITIONAL_OR_NAMED, "a", FullPayload)>>,
   <<Arg(POSITIONAL_ONLY_MARKER, Absent, FullPayload), Arg(VAR_NAMED, "b", FullPayload)>>,
   <<Arg(NAMED_ONLY, "a", FullPayload), Arg(BogusKind, "b", FullPayload)>>}
KwElems ==
  {[BaseKw EXCEPT !.name = n, !.args = a] : n \in {Absent, "Run"}, a \in KwArgLists}
  \cup {[BaseKw EXCEPT !.doc = Absent]}

SeqsUpTo(S, n) == UNION {[1..k -> S] : k \in 0..n}
KwLists == SeqsUpTo(KwElems, MaxKw)

\* Data types: none, one of each sort, one without a doc.
JsonRequiredValues == {Absent, None, "True", "False", "'yes'"}
XmlRequiredValues == {Absent, "true", "false", "yes"}
RequiredValues(b) == IF b = "json" THEN JsonRequiredValues ELSE XmlRequiredValues
NoDataTypes == [enums |-> <<>>, typeddicts |-> <<>>, customs |-> <<>>]
OneOfEach(r, d) ==
  [enums |-> <<[name |-> "E", doc |-> d, members |-> <<[name |-> "m", value |-> "1"]>>]>>,
   typeddicts |-> <<[name |-> "T", doc |-> d,
                     items |-> <<[key |-> "k", type |-> "int", required |-> r]>>]>>,
   customs |-> <<[name |-> "C", doc |-> d]>>]
DataTypeTrees(b) ==
  {NoDataTypes, OneOfEach(Absent, Absent)} \cup {OneOfEach(r, "") : r \in RequiredValues(b)}

(******************* specification: build(path) ****************************)
NoDoc == <<>>

FileAccess == "DataError: Spec file '<path>' does not exist."
SchemaShape == "DataError: Invalid spec file '<path>'."
UnsupportedVersion ==
  "DataError: Invalid spec file version '<version>'. Supported versions are 3 and 4."
ParseError == "ParseError"
JSONDecodeError == "JSONDecodeError"

Init ==
  /\ builder \in Builders
  /\ pc = "start"
  /\ handle = FALSE
  /\ error = NoError
  /\ reads = <<>>
  /\ document = <<>>
  /\ libdoc = NoDoc
  /\ result = NoDoc
  /\ input = <<>>
  /\ spec = ArgumentSpec
  /\ jsonOut = <<>>
  /\ xmlOut = <<>>

Fail(e) == pc' = "failed" /\ error' = e
Noted(k, v) == document' = DictSet(document, k, v)
Read(what) == reads' = Append(reads, what)

\* The handle after the with statement is left, with or without a pending exception.
MutantWithExitLeaksOnException(pending) == pending # NoError

WithExit(pending) == FALSE

\* _parse_spec: if not os.path.isfile(path): raise DataError(...)
XmlIsFile ==
  /\ builder = "xml" /\ pc = "start"
  /\ \E isfile \in {"True", "False"} :
       /\ Noted("isfile", isfile)
       /\ IF isfile = "True" THEN pc' = "open" /\ error' = error ELSE Fail(FileAccess)
  /\ UNCHANGED <<builder, handle, reads, libdoc, result, input, spec, jsonOut, xmlOut>>

\* with ETSource(path) as source:
XmlOpen ==
  /\ builder = "xml" /\ pc = "open"
  /\ handle' = TRUE
  /\ Read("file")
  /\ pc' = "parse"
  /\ UNCHANGED <<builder, error, document, libdoc, result, input, spec, jsonOut, xmlOut>>

\* root = ET.parse(source).getroot(): the parser may reject the byte stream.
XmlParse ==
  /\ builder = "xml" /\ pc = "parse"
  /\ \E parses \in {"True", "False"} :
       /\ Noted("parses", parses)
       /\ error' = IF parses = "True" THEN NoError ELSE ParseError
  /\ pc' = "exit"
  /\ UNCHANGED <<builder, handle, reads, libdoc, result, input, spec, jsonOut, xmlOut>>

\* Leaving the with block: the source is closed, a pending exception goes on.
XmlExit ==
  /\ builder = "xml" /\ pc = "exit"
  /\ handle' = WithExit(error)
  /\ pc' = IF error = NoError THEN "root" ELSE "failed"
  /\ UNCHANGED <<builder, error, reads, document, libdoc, result, input, spec, jsonOut, xmlOut>>

\* root.tag != 'keywordspec'
MutantRootTagAnyAccepted(tag) == TRUE

RootTagOk(tag) == tag = "keywordspec"

\* version not in ('3', '4')
VersionOk(version) == version \in {"3", "4"}

\* if root.tag != 'keywordspec': raise DataError("Invalid spec file '%s'." % path)
XmlCheckRoot ==
  /\ builder = "xml" /\ pc = "root"
  /\ \E tag \in {"keywordspec", "other"} :
       /\ Noted("tag", tag)
       /\ IF RootTagOk(tag) THEN pc' = "version" /\ error' = error ELSE Fail(SchemaShape)
  /\ Read("tag")
  /\ UNCHANGED <<builder, handle, libdoc, result, input, spec, jsonOut, xmlOut>>

\* version = root.get('specversion'); if version not in ('3', '4'): raise DataError(...)
XmlCheckVersion ==
  /\ builder = "xml" /\ pc = "version"
  /\ \E version \in {Absent, "2", "3", "4"} :
       /\ Noted("specversion", version)
       /\ IF VersionOk(Get(version)) THEN pc' = "libdoc" /\ error' = error
          ELSE Fail(UnsupportedVersion)
  /\ Read("specversion")
  /\ UNCHANGED <<builder, handle, libdoc, result, input, spec, jsonOut, xmlOut>>

\* _parse_spec_json: if not os.path.isfile(path): raise DataError(...)
JsonIsFile ==
  /\ builder = "json" /\ pc = "start"
  /\ \E isfile \in {"True", "False"} :
       /\ Noted("isfile", isfile)
       /\ IF isfile = "True" THEN pc' = "open" /\ error' = error ELSE Fail(FileAccess)
  /\ UNCHANGED <<builder, handle, reads, libdoc, result, input, spec, jsonOut, xmlOut>>

\* with open(path) as json_source:
JsonOpen ==
  /\ builder = "json" /\ pc = "open"
  /\ handle' = TRUE
  /\ Read("file")
  /\ pc' = "parse"
  /\ UNCHANGED <<builder, error, document, libdoc, result, input, spec, jsonOut, xmlOut>>

\* libdoc_dict = json.load(json_source): the parser may reject the byte stream.
JsonLoad ==
  /\ builder = "json" /\ pc = "parse"
  /\ \E parses \in {"True", "False"} :
       /\ Noted("parses", parses)
       /\ error' = IF parses = "True" THEN NoError ELSE JSONDecodeError
  /\ pc' = "exit"
  /\ UNCHANGED <<builder, handle, reads, libdoc, result, input, spec, jsonOut, xmlOut>>

\* Leaving the with block: the file is closed, a pending exception goes on.
JsonExit ==
  /\ builder = "json" /\ pc = "exit"
  /\ handle' = WithExit(error)
  /\ pc' = IF error = NoError THEN "libdoc" ELSE "failed"
  /\ UNCHANGED <<builder, error, reads, document, libdoc, result, input, spec, jsonOut, xmlOut>>

\* libdoc = LibraryDoc(...), of either builder.
TopLevelDoc(b, t) == IF b = "json" THEN JsonLibraryDoc(t) ELSE XmlLibraryDoc(t)

CreateLibraryDoc ==
  /\ pc = "libdoc"
  /\ \E t \in TopLevels :
       LET r == TopLevelDoc(builder, t)
       IN /\ Noted("top", t)
          /\ IF r.raised = NoError
             THEN pc' = "inits" /\ libdoc' = r.val /\ error' = error
             ELSE Fail(r.raised) /\ libdoc' = libdoc
  /\ Read("fields")
  /\ UNCHANGED <<builder, handle, result, input, spec, jsonOut, xmlOut>>

\* libdoc.inits = ... : the keyword entries under 'inits' (JSON), 'inits/init' (XML).
CreateInits ==
  /\ pc = "inits"
  /\ \E kws \in KwLists :
       LET r == CreateKeywords(builder, kws, libdoc[1].source)
       IN IF r.raised = NoError
          THEN pc' = "keywords" /\ libdoc' = <<[libdoc[1] EXCEPT !.inits = r.val[1]]>>
               /\ error' = error
          ELSE Fail(r.raised) /\ libdoc' = libdoc
  /\ Read("inits")
  /\ UNCHANGED <<builder, handle, document, result, input, spec, jsonOut, xmlOut>>

\* libdoc.keywords = ... : the entries under 'keywords' (JSON), 'keywords/kw' (XML).
CreateKeywordList ==
  /\ pc = "keywords"
  /\ \E kws \in KwLists :
       LET r == CreateKeywords(builder, kws, libdoc[1].source)
       IN IF r.raised = NoError
          THEN pc' = "datatypes" /\ libdoc' = <<[libdoc[1] EXCEPT !.keywords = r.val[1]]>>
               /\ error' = error
          ELSE Fail(r.raised) /\ libdoc' = libdoc
  /\ Read("keywords")
  /\ UNCHANGED <<builder, handle, document, result, input, spec, jsonOut, xmlOut>>

\* libdoc.data_types.types = set(self._create_data_types(...))
CreateDataTypeSet ==
  /\ pc = "datatypes"
  /\ \E dts \in DataTypeTrees(builder) :
       LET r == CreateDataTypes(builder, dts)
       IN IF r.raised = NoError
          THEN pc' = "return" /\ libdoc' = <<[libdoc[1] EXCEPT !.data_types = r.val[1]]>>
               /\ error' = error
          ELSE Fail(r.raised) /\ libdoc' = libdoc
  /\ Read("datatypes")
  /\ UNCHANGED <<builder, handle, document, result, input, spec, jsonOut, xmlOut>>

\* return libdoc
ReturnLibdoc ==
  /\ pc = "return"
  /\ result' = libdoc
  /\ pc' = "done"
  /\ UNCHANGED <<builder, handle, error, reads, document, libdoc, input, spec, jsonOut, xmlOut>>

Next ==
  \/ XmlIsFile \/ XmlOpen \/ XmlParse \/ XmlExit \/ XmlCheckRoot \/ XmlCheckVersion
  \/ JsonIsFile \/ JsonOpen \/ JsonLoad \/ JsonExit
  \/ CreateLibraryDoc \/ CreateInits \/ CreateKeywordList \/ CreateDataTypeSet
  \/ ReturnLibdoc

Spec == Init /\ [][Next]_vars

(******************* specification: the parameter loop *********************)
\* A build that has parsed and validated its document, has made its LibraryDoc and
\* now runs _create_arguments for a keyword, record by record.
ArgsInit ==
  /\ builder \in Builders
  /\ pc = "args"
  /\ handle = FALSE
  /\ error = NoError
  /\ reads = <<>>
  /\ document = <<>>
  /\ libdoc = TopLevelDoc(builder, BaseTop).val
  /\ result = NoDoc
  /\ input = <<>>
  /\ spec = ArgumentSpec
  /\ jsonOut = <<>>
  /\ xmlOut = <<>>

\* One iteration of the loop; an exception leaves the loop and the build.
CreateArgumentsStep ==
  /\ pc = "args"
  /\ Len(input) < MaxArgs
  /\ \E arg \in ArgsFor(builder) :
       LET r == ArgStep(builder, spec, arg)
       IN /\ input' = Append(input, arg)
          /\ spec' = r.spec
          /\ error' = r.raised
          /\ pc' = IF r.raised = NoError THEN "args" ELSE "failed"
  /\ UNCHANGED <<builder, handle, reads, document, libdoc, result, jsonOut, xmlOut>>

\* return spec: the keyword gets the ArgumentSpec and the build returns its document.
KeywordWith(b, s) ==
  [CreateKeyword(b, BaseKw, "lib.py").val[1] EXCEPT !.args = s]

CreateArgumentsReturn ==
  /\ pc = "args"
  /\ pc' = "done"
  /\ result' = <<[libdoc[1] EXCEPT !.keywords = <<KeywordWith(builder, spec)>>]>>
  /\ UNCHANGED <<builder, handle, error, reads, document, libdoc, input, spec, jsonOut, xmlOut>>

ArgsNext == CreateArgumentsStep \/ CreateArgumentsReturn

SpecArgs == ArgsInit /\ [][ArgsNext]_vars

(************** specification: both builders on one content ****************)
\* build_from_dict (JSON) and build after _parse_spec (XML) as a whole, on a parsed
\* and validated tree: the document, or the first exception.
Build(b, t) ==
  LET top == TopLevelDoc(b, t.top)
  IN IF top.raised # NoError THEN Raise(top.raised)
     ELSE LET ini == CreateKeywords(b, t.inits, top.val[1].source)
          IN IF ini.raised # NoError THEN Raise(ini.raised)
             ELSE LET kws == CreateKeywords(b, t.keywords, top.val[1].source)
                  IN IF kws.raised # NoError THEN Raise(kws.raised)
                     ELSE LET dts == CreateDataTypes(b, t.datatypes)
                          IN IF dts.raised # NoError THEN Raise(dts.raised)
                             ELSE Ok([top.val[1] EXCEPT !.inits = ini.val[1],
                                                        !.keywords = kws.val[1],
                                                        !.data_types = dts.val[1]])

\* The contents the two documents share: top-level fields, keyword entries.
EquivTops ==
  {[BaseTop EXCEPT !.type = ty, !.format = f, !.source = src, !.lineno = ln] :
      ty \in {"library", "LIBRARY"}, f \in {Absent, "HTML"}, src \in {Absent, "lib.py"},
      ln \in {Absent, "0", "7"}}
EquivArgLists ==
  {<<>>,
   <<Arg(POSITIONAL_ONLY_MARKER, "a", FullPayload),
     Arg(POSITIONAL_OR_NAMED, "b", [default |-> "", hasTypes |-> TRUE, types |-> <<"int">>])>>,
   <<Arg(NAMED_ONLY_MARKER, Absent, FullPayload), Arg(NAMED_ONLY, "a", FullPayload)>>}
EquivKwElems ==
  {[BaseKw EXCEPT !.name = n, !.source = src, !.args = a] :
      n \in {Absent, "Run"}, src \in {Absent, "kw.py"}, a \in EquivArgLists}

Tree(top, kws, r) ==
  [top |-> top, inits |-> <<>>, keywords |-> kws, datatypes |-> OneOfEach(r, "")]

\* Two documents, one per format, with the same content but for the record-type
\* item's required value, which each format writes in its own way.
EquivInit ==
  /\ builder = "both"
  /\ pc = "built"
  /\ handle = FALSE
  /\ error = NoError
  /\ reads = <<>>
  /\ \E top \in EquivTops, kws \in SeqsUpTo(EquivKwElems, MaxKw),
        jr \in JsonRequiredValues, xr \in XmlRequiredValues :
       document = [json |-> Tree(top, kws, jr), xml |-> Tree(top, kws, xr)]
  /\ libdoc = NoDoc
  /\ result = NoDoc
  /\ input = <<>>
  /\ spec = ArgumentSpec
  /\ jsonOut = <<>>
  /\ xmlOut = <<>>

\* JsonDocBuilder().build_from_dict(tree)
EquivJsonBuild ==
  /\ builder = "both" /\ jsonOut = <<>>
  /\ jsonOut' = <<Build("json", document.json)>>
  /\ UNCHANGED <<builder, pc, handle, error, reads, document, libdoc, result, input, spec,
                 xmlOut>>

\* XmlDocBuilder().build(path), from the validated root on
EquivXmlBuild ==
  /\ builder = "both" /\ xmlOut = <<>>
  /\ xmlOut' = <<Build("xml", document.xml)>>
  /\ UNCHANGED <<builder, pc, handle, error, reads, document, libdoc, result, input, spec,
                 jsonOut>>

EquivNext == EquivJsonBuild \/ EquivXmlBuild

SpecEquiv == EquivInit /\ [][EquivNext]_vars

(********************* claims about build(path) ****************************)
Named(r) == r.name # Absent
IsMarker(r) == r.kind \in MarkerKinds
Noticed(k) == k \in DOMAIN document

\* C4: an XML document with another root tag fails with the SchemaShape error, one
\* with root keywordspec and a specversion absent or outside {"3", "4"} fails with
\* the UnsupportedVersion error; the root tag is read before the version, and in
\* both failures nothing but the file, the tag and the version was read and no
\* LibraryDoc was made.  Fields are read only from a validated root.
C4_ValidationPrecedesExtraction ==
  builder = "xml" =>
    /\ (Noticed("tag") /\ document.tag # "keywordspec")
         => /\ pc = "failed" /\ error = SchemaShape
            /\ reads = <<"file", "tag">>
            /\ libdoc = NoDoc /\ result = NoDoc
    /\ (Noticed("specversion") /\ document.specversion \notin {"3", "4"})
         => /\ pc = "failed" /\ error = UnsupportedVersion
            /\ reads = <<"file", "tag", "specversion">>
            /\ document.tag = "keywordspec"
            /\ libdoc = NoDoc /\ result = NoDoc
    /\ (Len(reads) > 3 \/ libdoc # NoDoc)
         => /\ SubSeq(reads, 1, 3) = <<"file", "tag", "specversion">>
            /\ document.tag = "keywordspec" /\ document.specversion \in {"3", "4"}

C4_Witness ==
  /\ builder = "xml" /\ pc = "failed"
  /\ error = UnsupportedVersion
  /\ document.tag = "keywordspec" /\ document.specversion = Absent

\* C5 (as claimed): from a validated XML root whose other fields are there, the
\* LibraryDoc is made, with lineno -1 when the lineno attribute is absent, -1 when
\* it parses to zero, and the parsed value otherwise.
C5_LinenoAbsentOrZeroIsMinusOne ==
  (builder = "xml" /\ Noticed("top") /\ document.top.type # Absent
     /\ document.top.lineno \in {Absent} \cup Numerals)
  => /\ libdoc # NoDoc
     /\ libdoc[1].lineno = IF document.top.lineno \in {Absent, "0"} THEN -1
                           ELSE IntOf(document.top.lineno)

\* C7: a handle is held only between the with statement's entry and its exit, after
\* the path was found to be a file; the build never ends, returning or raising,
\* with the handle held.
C7_HandleScoped ==
  /\ handle => (Noticed("isfile") /\ document.isfile = "True" /\ pc \in {"parse", "exit"})
  /\ "file" \in Range(reads) => document.isfile = "True"
  /\ pc \in {"done", "failed"} => ~handle
  /\ pc \notin {"start", "open", "parse", "exit"} => ~handle

C7_Witness ==
  /\ pc = "failed" /\ ~handle
  /\ "file" \in Range(reads)
  /\ error \in {ParseError, JSONDecodeError}

(***************** claims about the two formats ****************************)
BothBuilt == jsonOut # <<>> /\ xmlOut # <<>>
BothReturned == BothBuilt /\ jsonOut[1].raised = NoError /\ xmlOut[1].raised = NoError
JsonDoc == jsonOut[1].val[1]
XmlDoc == xmlOut[1].val[1]

\* The required value a document wrote for its record-type item, and the one built.
SourceRequired(t) == t.datatypes.typeddicts[1].items[1].required
BuiltRequired(d) ==
  (CHOOSE dt \in d.data_types : dt.kind = "TypedDict").items[1].required

TriState == {"True", "False", None}

\* The same logical value in the two formats: absent in both, true and "true",
\* false and "false".
SameRequired(jr, xr) ==
  \/ jr = Absent /\ xr = Absent
  \/ jr = "True" /\ xr = "true"
  \/ jr = "False" /\ xr = "false"

\* C6 (as claimed): the same logical required value gives the same built value in
\* both formats (None for absent, True, False), and no source value of either format
\* gives a built value outside {True, False, None}.
C6_RequiredTriState ==
  LET jr == SourceRequired(document.json)
      xr == SourceRequired(document.xml)
  IN /\ (jsonOut # <<>> /\ jsonOut[1].raised = NoError)
          => BuiltRequired(JsonDoc) \in TriState
     /\ (xmlOut # <<>> /\ xmlOut[1].raised = NoError)
          => BuiltRequired(XmlDoc) \in TriState
     /\ (BothReturned /\ SameRequired(jr, xr))
          => /\ BuiltRequired(JsonDoc) = BuiltRequired(XmlDoc)
             /\ BuiltRequired(XmlDoc)
                  = (IF xr = Absent THEN None ELSE IF xr = "true" THEN "True" ELSE "False")

\* C6 (amended): the same logical required value gives the same built value in both
\* formats; XML maps every attribute value into {True, False, None} ("true" to True,
\* any other text to False); JSON hands the value on as it is, so its built value is
\* in {True, False, None} exactly when the source value is a boolean, null or absent.
C6_RequiredXmlNormalisedJsonAsIs ==
  LET jr == SourceRequired(document.json)
      xr == SourceRequired(document.xml)
  IN /\ (jsonOut # <<>> /\ jsonOut[1].raised = NoError)
          => /\ BuiltRequired(JsonDoc) = (IF jr = Absent THEN None ELSE jr)
             /\ BuiltRequired(JsonDoc) \in TriState
                  <=> jr \in {Absent, None, "True", "False"}
     /\ (xmlOut # <<>> /\ xmlOut[1].raised = NoError)
          => /\ BuiltRequired(XmlDoc) \in TriState
             /\ BuiltRequired(XmlDoc) = "True" <=> xr = "true"
             /\ BuiltRequired(XmlDoc) = None <=> xr = Absent
     /\ (BothReturned /\ SameRequired(jr, xr))
          => BuiltRequired(JsonDoc) = BuiltRequired(XmlDoc)

C6_Witness ==
  /\ BothReturned
  /\ SourceRequired(document.json) = "False" /\ SourceRequired(document.xml) = "false"
  /\ BuiltRequired(JsonDoc) = "False" /\ BuiltRequired(XmlDoc) = "False"

\* A document without the fields the claim sets aside: source and lineno, of the
\* library, its inits and its keywords.
WithoutSourceAndLineno(d) ==
  LET Kw(k) == [k EXCEPT !.source = "", !.lineno = 0]
  IN [d EXCEPT !.source = "", !.lineno = 0,
               !.inits = [i \in 1..Len(@) |-> Kw(@[i])],
               !.keywords = [i \in 1..Len(@) |-> Kw(@[i])]]

\* A document with the library type upper-cased, a keyword name of None read as '',
\* and a library lineno of 0 read as -1.
UpToFormatDefaults(d) ==
  LET Kw(k) == [k EXCEPT !.name = IF @ = None THEN "" ELSE @]
  IN [d EXCEPT !.type = Upper(@), !.lineno = IF @ = 0 THEN -1 ELSE @,
               !.inits = [i \in 1..Len(@) |-> Kw(@[i])],
               !.keywords = [i \in 1..Len(@) |-> Kw(@[i])]]

SameContent ==
  SameRequired(SourceRequired(document.json), SourceRequired(document.xml))

NamesOfKind(args, k) ==
  LET sel == SelectSeq(args, LAMBDA r : Named(r) /\ r.kind = k)
  IN [i \in 1..Len(sel) |-> sel[i].name]

LastNameOfKind(args, k) ==
  LET n == NamesOfKind(args, k) IN IF n = <<>> THEN None ELSE n[Len(n)]

\* Every place of an ArgumentSpec a name can appear in.
NamesIn(s) ==
  Range(s.positional_only) \cup Range(s.positional_or_named) \cup Range(s.named_only)
  \cup ({s.var_positional, s.var_named} \ {None})
  \cup DOMAIN s.defaults \cup DOMAIN s.types

\* A record that raises in the loop of builder b: a JSON record without 'name' or
\* 'types', or a record that reaches the setters table with a kind it does not hold.
Faulty(b, r) ==
  IF b = "json" THEN ~Named(r) \/ r.kind \notin SetterKinds \/ ~r.hasTypes
  ELSE Named(r) /\ r.kind \notin SetterKinds

\* C1 (as claimed): a marker record causes no state change: when no other record of
\* the input carries its name, that name appears in no group, in no variadic slot,
\* and is a key of neither defaults nor types.
C1_SeparatorLeavesNoEntry ==
  pc \in {"args", "done"} =>
    \A i \in 1..Len(input) :
      (IsMarker(input[i]) /\ Named(input[i])
         /\ \A j \in 1..Len(input) : input[j].name = input[i].name => IsMarker(input[j]))
      => input[i].name \notin NamesIn(spec)

\* C2: each ordered group is exactly the subsequence of the input's names of the
\* group's kind, in input order, duplicates kept.
C2_GroupsAreSubsequences ==
  pc \in {"args", "done"} =>
    /\ spec.positional_only = NamesOfKind(input, POSITIONAL_ONLY)
    /\ spec.positional_or_named = NamesOfKind(input, POSITIONAL_OR_NAMED)
    /\ spec.named_only = NamesOfKind(input, NAMED_ONLY)

C2_Witness ==
  /\ pc = "done"
  /\ Len(input) = 2
  /\ input[1].kind = NAMED_ONLY /\ input[1].name = "b"
  /\ input[2].kind = NAMED_ONLY /\ input[2].name = "a"
  /\ result[1].keywords[1].args.named_only = <<"b", "a">>

\* A default the source record explicitly supplied (JSON's null supplies none).
Supplied(r) == r.default \notin {Absent, None}

\* The last named record of the input that is no marker and is called n.
LastRealIndex(args, n) ==
  LET I == {i \in 1..Len(args) : args[i].name = n /\ ~IsMarker(args[i])}
  IN CHOOSE i \in I : \A j \in I : j <= i

\* C3 (as claimed): a name is a key of defaults iff some non-marker record of that
\* name supplied a default, and every non-marker record's name is a key of types,
\* mapped to the record's type sequence (the last such record's, for a repeated name).
C3_DefaultsIffSupplied ==
  pc \in {"args", "done"} =>
    /\ \A n \in ArgNames :
         n \in DOMAIN spec.defaults
           <=> \E i \in 1..Len(input) :
                 input[i].name = n /\ ~IsMarker(input[i]) /\ Supplied(input[i])
    /\ \A i \in 1..Len(input) :
         (Named(input[i]) /\ ~IsMarker(input[i]))
           => /\ input[i].name \in DOMAIN spec.types
              /\ spec.types[input[i].name]
                   = input[LastRealIndex(input, input[i].name)].types

Groups(s) == <<s.positional_only, s.positional_or_named, s.named_only>>
VariadicKinds == {VAR_POSITIONAL, VAR_NAMED}

\* A record that carries the fields its format requires.
Complete(b, r) == b = "json" => (Named(r) /\ r.hasTypes)

\* C8 (as claimed): the loop never fails when every record is complete and its kind
\* is one of the seven, and it fails at the first record whose kind is not, leaving
\* the build without a document.
C8_TotalOrFailsAtBadKind ==
  /\ (\A i \in 1..Len(input) : Complete(builder, input[i]) /\ input[i].kind \in SetterKinds)
       => pc # "failed"
  /\ (\E i \in 1..Len(input) : input[i].kind \notin SetterKinds)
       => /\ pc = "failed" /\ result = NoDoc
          /\ input[Len(input)].kind \notin SetterKinds

\* C8 (amended): the loop fails exactly at the first record that is faulty for its
\* builder (JSON: no name, no types, or a kind outside the table; XML: a named
\* record with a kind outside the table; a nameless <arg> is skipped whatever its
\* kind), with a KeyError and no document; without such a record the build returns
\* its document.
C8_FailsExactlyAtFaultyRecord ==
  /\ \A i \in 1..Len(input) - 1 : ~Faulty(builder, input[i])
  /\ pc = "failed" <=> (input # <<>> /\ Faulty(builder, input[Len(input)]))
  /\ pc = "failed" => (error = "KeyError" /\ result = NoDoc)
  /\ pc = "done" => (error = NoError /\ result # NoDoc)

C8_Witness ==
  /\ pc = "failed"
  /\ result = NoDoc
  /\ Len(input) = 2
  /\ input[1].kind \in SetterKinds
  /\ Named(input[2]) /\ input[2].kind = BogusKind

\* C10: each variadic slot holds the name of the last record of its kind (None when
\* there is none), a step never fails on a well-formed record of a known kind
\* whatever names came before, and a step for a variadic record leaves the three
\* ordered groups as they were.
C10_VariadicLastWins ==
  /\ [](pc \in {"args", "done"} =>
          /\ spec.var_positional = LastNameOfKind(input, VAR_POSITIONAL)
          /\ spec.var_named = LastNameOfKind(input, VAR_NAMED))
  /\ [](pc = "failed" => Faulty(builder, input[Len(input)]))
  /\ [][(input' # input /\ input'[Len(input')].kind \in VariadicKinds)
          => Groups(spec') = Groups(spec)]_vars

C10_Witness ==
  /\ pc = "done"
  /\ Len(input) = 2
  /\ input[1].kind = VAR_POSITIONAL /\ input[1].name = "a"
  /\ input[2].kind = VAR_POSITIONAL /\ input[2].name = "b"
  /\ result[1].keywords[1].args.var_positional = "b"

====
